---- MODULE Spec2Model ----
(***************************************************************************)
(* Model of generate_pairwise_tests (src/pairwise.py), the greedy pairwise *)
(* test-case generator.                                                    *)
(*                                                                         *)
(* A Python dict is modelled as the sequence of its <<key, value>> entries *)
(* in insertion order.  Parameter names are the naturals 1..n, the number  *)
(* standing for the name's rank in string order (what sorted() compares);  *)
(* the insertion order of the names is independent of that rank.  Values   *)
(* are naturals; the code never compares the values of two different       *)
(* parameters for anything but tuple equality.                             *)
(***************************************************************************)
EXTENDS Integers, Sequences, FiniteSets, TLC

VARIABLES parameters, uncovered_pairs, test_cases, sorted_params,
          current_test_case, pc, error, overflow

vars == <<parameters, uncovered_pairs, test_cases, sorted_params,
          current_test_case, pc, error, overflow>>

\* ---------------------------------------------------------------- bounds
\* Largest number of parameters of an input mapping.
MaxParams == 3
\* Longest domain of a parameter.
MaxLen == 2
\* Number of test cases the model records in test_cases; the code's list is
\* unbounded, cases appended after that are counted by overflow only.
MaxSuite == 5

\* ------------------------------------------------------------ dict helpers
\* list(d.keys()) / iteration over a dict: the keys in insertion order.
Keys(d) == [i \in 1..Len(d) |-> d[i][1]]

\* The set of keys of a dict.
KeySet(d) == {d[i][1] : i \in 1..Len(d)}

\* d[k] for a key that is present.
Get(d, k) == d[CHOOSE i \in 1..Len(d) : d[i][1] = k][2]

\* The set of elements of a list.
Range(s) == {s[i] : i \in 1..Len(s)}

\* ------------------------------------------------------------------ inputs
\* Domains up to renaming of values: the first value is 0 and every later
\* value is at most one more than the largest before it (duplicates allowed).
Domains ==
    {s \in UNION {[1..l -> 0..(MaxLen - 1)] : l \in 0..MaxLen} :
        \A i \in 1..Len(s) :
            s[i] = 0 \/ \E j \in 1..(i - 1) : s[j] = s[i] - 1}

\* Insertion orders of the n names 1..n: the rotations of the rank order, so
\* that a name's rank and its position in the mapping differ.
Orders(n) ==
    {[i \in 1..n |-> ((i + k - 1) % n) + 1] : k \in 0..(IF n = 0 THEN 0 ELSE n - 1)}

\* The mapping that declares the names of o, in that order, with the domains ds.
Mapping(o, ds) == [i \in 1..Len(o) |-> <<o[i], ds[i]>>]

\* a:[0,1], b:[0,1], c:[0,1] (tests/test_pairwise.py).
ABCParams == << <<1, <<0, 1>>>>, <<2, <<0, 1>>>>, <<3, <<0, 1>>>> >>

\* x:[1,2,3], y:[A,B]; the opaque values A and B are written 4 and 5.
XYParams == << <<1, <<1, 2, 3>>>>, <<2, <<4, 5>>>> >>

\* ---------------------------------------------------------- pure functions
\* SortedPair without the sort: the tuple in the order the entries are given.
SortedPair_Unsorted(e1, e2) == <<e1, e2>>

\* tuple(sorted((e1, e2))) for two (name, value) tuples: Python orders tuples
\* lexicographically.
SortedPair(e1, e2) ==
    IF e1[1] < e2[1] \/ (e1[1] = e2[1] /\ e1[2] <= e2[2])
    THEN <<e1, e2>> ELSE <<e2, e1>>

\* itertools.combinations(range(1, n+1), 2): the position pairs i < j.
Combinations2(n) == {t \in (1..n) \X (1..n) : t[1] < t[2]}

\* PairsOf without the loop over the second parameter's values: only its
\* first value is paired.
PairsOf_FirstValueOnly(e1, e2) ==
    IF e2[2] = <<>> THEN {}
    ELSE {SortedPair(<<e1[1], v1>>, <<e2[1], e2[2][1]>>) : v1 \in Range(e1[2])}

\* Lines 43-46: the pairs of every value of one parameter with every value of
\* another; e1 and e2 are <<name, domain>> entries of the input mapping.
PairsOf(e1, e2) ==
    {SortedPair(<<e1[1], v1>>, <<e2[1], v2>>) : v1 \in Range(e1[2]), v2 \in Range(e2[2])}

\* Lines 40-46: the pairs of every 2-combination of the parameter names (in
\* insertion order) and every value of each.
AllPairs(params) ==
    UNION {PairsOf(params[t[1]], params[t[2]]) : t \in Combinations2(Len(params))}

\* SortInsert that places p before the names of equal domain length: the
\* order of sorted(...)[::-1], which reverses ties.
SortInsert_TiesReversed(s, p, params) ==
    LET k == Cardinality({i \in 1..Len(s) :
                 Len(Get(params, s[i])) > Len(Get(params, p))})
    IN SubSeq(s, 1, k) \o <<p>> \o SubSeq(s, k + 1, Len(s))

\* SortInsert that overwrites the name behind the insertion point instead of
\* shifting it.
SortInsert_Overwrite(s, p, params) ==
    LET k == Cardinality({i \in 1..Len(s) :
                 Len(Get(params, s[i])) >= Len(Get(params, p))})
    IN SubSeq(s, 1, k) \o <<p>> \o SubSeq(s, k + 2, Len(s))

\* Line 50, one step of the stable sort: p goes behind every name already
\* placed whose domain is at least as long as its own.
SortInsert(s, p, params) ==
    LET k == Cardinality({i \in 1..Len(s) :
                 Len(Get(params, s[i])) >= Len(Get(params, p))})
    IN SubSeq(s, 1, k) \o <<p>> \o SubSeq(s, k + 1, Len(s))

RECURSIVE SortFrom(_, _, _)
SortFrom(keys, acc, params) ==
    IF keys = <<>> THEN acc
    ELSE SortFrom(Tail(keys), SortInsert(acc, Head(keys), params), params)

\* Line 50: sorted(parameters, key=lambda p: len(parameters[p]), reverse=True).
SortedParams(params) == SortFrom(Keys(params), <<>>, params)

\* Line 55: best_value = None.
None == -1

\* NewlyCoveredCount that scores a value against every parameter, assigned or
\* not: the number of uncovered pairs the value occurs in.
NewlyCoveredCount_AllParameters(param, value, case, uncovered) ==
    Cardinality({pr \in uncovered : pr[1] = <<param, value>> \/ pr[2] = <<param, value>>})

\* Lines 58-62: the number of entries of the partial test case whose pair with
\* (param, value) is still uncovered.
NewlyCoveredCount(param, value, case, uncovered) ==
    Cardinality({i \in 1..Len(case) :
        SortedPair(<<param, value>>, case[i]) \in uncovered})

\* ScanValues that compares with >=: among equal scores the last value wins.
RECURSIVE ScanValues_LastMax(_, _, _, _, _)
ScanValues_LastMax(param, values, case, uncovered, st) ==
    IF values = <<>> THEN st
    ELSE LET c == NewlyCoveredCount(param, Head(values), case, uncovered)
         IN ScanValues_LastMax(param, Tail(values), case, uncovered,
                               IF c >= st[2] THEN <<Head(values), c>> ELSE st)

\* Lines 55-65: the scan of the domain; st is <<best_value, max_covered>>.
RECURSIVE ScanValues(_, _, _, _, _)
ScanValues(param, values, case, uncovered, st) ==
    IF values = <<>> THEN st
    ELSE LET c == NewlyCoveredCount(param, Head(values), case, uncovered)
         IN ScanValues(param, Tail(values), case, uncovered,
                       IF c > st[2] THEN <<Head(values), c>> ELSE st)

\* BestValue that returns the other component of the scan, max_covered.
BestValue_Count(param, domain, case, uncovered) ==
    ScanValues(param, domain, case, uncovered, <<None, -1>>)[2]

\* Lines 55-65: best_value after the scan (None for an empty domain).
BestValue(param, domain, case, uncovered) ==
    ScanValues(param, domain, case, uncovered, <<None, -1>>)[1]

\* PairsInCase over neighbouring entries only (zip(case, case[1:]) for
\* itertools.combinations(case, 2)).
PairsInCase_Adjacent(case) ==
    {SortedPair(case[i], case[i + 1]) : i \in 1..(Len(case) - 1)}

\* Lines 70-73: the pairs of a completed test case.
PairsInCase(case) ==
    {SortedPair(case[t[1]], case[t[2]]) : t \in Combinations2(Len(case))}

\* Remaining with ^= for -=: the symmetric difference puts back the pairs of
\* the test case that were already removed.
Remaining_SymmetricDifference(uncovered, case) ==
    (uncovered \ PairsInCase(case)) \cup (PairsInCase(case) \ uncovered)

\* Line 74: uncovered_pairs -= pairs_in_new_case.
Remaining(uncovered, case) == uncovered \ PairsInCase(case)

\* SingleParamCases that stops one value short.
SingleParamCases_DropLast(params) ==
    [i \in 1..(Len(params[1][2]) - 1) |-> << <<params[1][1], params[1][2][i]>> >>]

\* Line 36: one single-entry test case per value of the only parameter.
SingleParamCases(params) ==
    [i \in 1..Len(params[1][2]) |-> << <<params[1][1], params[1][2][i]>> >>]

\* Recorded with insert(0, case) for append(case): the new test case goes in
\* front of the earlier ones.
Recorded_Prepend(suite, case) ==
    IF Len(suite) < MaxSuite THEN <<case>> \o suite ELSE suite

\* Line 69: test_cases.append(case), recorded up to MaxSuite cases.
Recorded(suite, case) ==
    IF Len(suite) < MaxSuite THEN Append(suite, case) ELSE suite

\* ------------------------------------------------------------- the program
Init ==
    /\ \/ \E n \in 0..MaxParams : \E o \in Orders(n) : \E ds \in [1..n -> Domains] :
            parameters = Mapping(o, ds)
       \/ parameters \in {ABCParams, XYParams}
    /\ uncovered_pairs = {}
    /\ test_cases = <<>>
    /\ sorted_params = <<>>
    /\ current_test_case = <<>>
    /\ pc = "start"
    /\ error = "none"
    /\ overflow = FALSE

\* Lines 33-37: fewer than two parameters.
EdgeCases ==
    /\ pc = "start"
    /\ Len(parameters) < 2
    /\ test_cases' = IF Len(parameters) = 1 THEN SingleParamCases(parameters) ELSE <<>>
    /\ pc' = "returned"
    /\ UNCHANGED <<parameters, uncovered_pairs, sorted_params, current_test_case,
                   error, overflow>>

\* Lines 40-50: the master set of pairs and the visitation order.
BuildUniverse ==
    /\ pc = "start"
    /\ Len(parameters) >= 2
    /\ uncovered_pairs' = AllPairs(parameters)
    /\ test_cases' = <<>>
    /\ sorted_params' = SortedParams(parameters)
    /\ pc' = "while"
    /\ UNCHANGED <<parameters, current_test_case, error, overflow>>

\* Lines 52-53: the loop test succeeds, a new test case is started.
StartCase ==
    /\ pc = "while"
    /\ uncovered_pairs # {}
    /\ current_test_case' = <<>>
    /\ pc' = "for"
    /\ UNCHANGED <<parameters, uncovered_pairs, test_cases, sorted_params, error, overflow>>

\* Lines 52, 75: the loop test fails, the suite is returned.
Return ==
    /\ pc = "while"
    /\ uncovered_pairs = {}
    /\ pc' = "returned"
    /\ UNCHANGED <<parameters, uncovered_pairs, test_cases, sorted_params,
                   current_test_case, error, overflow>>

\* The parameter the for loop of line 54 visits next.
NextParam == sorted_params[Len(current_test_case) + 1]

\* Lines 54-68: one pass of the for loop over a parameter with values.
ChooseValue ==
    /\ pc = "for"
    /\ Len(current_test_case) < Len(sorted_params)
    /\ LET param_name == NextParam
           domain == Get(parameters, param_name)
           best_value == BestValue(param_name, domain, current_test_case, uncovered_pairs)
       IN /\ ~(best_value = None /\ domain = <<>>)
          /\ current_test_case' =
                Append(current_test_case,
                       <<param_name, IF best_value = None THEN domain[1] ELSE best_value>>)
    /\ UNCHANGED <<parameters, uncovered_pairs, test_cases, sorted_params, pc,
                   error, overflow>>

\* Lines 66-67: best_value is None and parameters[param_name][0] raises
\* IndexError on the empty domain.
RaiseIndexError ==
    /\ pc = "for"
    /\ Len(current_test_case) < Len(sorted_params)
    /\ LET domain == Get(parameters, NextParam)
       IN /\ BestValue(NextParam, domain, current_test_case, uncovered_pairs) = None
          /\ domain = <<>>
    /\ pc' = "raised"
    /\ error' = "IndexError"
    /\ UNCHANGED <<parameters, uncovered_pairs, test_cases, sorted_params,
                   current_test_case, overflow>>

\* Lines 69-74: the completed test case is appended and its pairs are removed
\* from the uncovered set.
AppendCase ==
    /\ pc = "for"
    /\ Len(current_test_case) = Len(sorted_params)
    /\ test_cases' = Recorded(test_cases, current_test_case)
    /\ overflow' = (overflow \/ Len(test_cases) >= MaxSuite)
    /\ uncovered_pairs' = Remaining(uncovered_pairs, current_test_case)
    /\ pc' = "while"
    /\ UNCHANGED <<parameters, sorted_params, current_test_case, error>>

Next ==
    \/ EdgeCases
    \/ BuildUniverse
    \/ StartCase
    \/ Return
    \/ ChooseValue
    \/ RaiseIndexError
    \/ AppendCase

Spec == Init /\ [][Next]_vars

\* The call runs on one thread with nothing to wait for: a step that can be
\* taken is taken.
FairSpec == Spec /\ WF_vars(Next)

\* ------------------------------------------------------ claim vocabulary
\* Every declared parameter has at least one value.
NoEmptyDomain == \A i \in 1..Len(parameters) : parameters[i][2] # <<>>

\* The test case assigns value v to parameter p.
Assigns(case, p, v) == \E i \in 1..Len(case) : case[i] = <<p, v>>

\* The suite has a test case with p1 = v1 and p2 = v2.
Covered(suite, p1, v1, p2, v2) ==
    \E k \in 1..Len(suite) : Assigns(suite[k], p1, v1) /\ Assigns(suite[k], p2, v2)

\* Every pair of values of two distinct declared parameters is in some test
\* case of the suite.
AllCovered(suite) ==
    \A i, j \in 1..Len(parameters) :
        i # j =>
            \A v1 \in Range(parameters[i][2]), v2 \in Range(parameters[j][2]) :
                Covered(suite, parameters[i][1], v1, parameters[j][1], v2)

\* The for loop of line 54 has assigned every parameter: line 69 is next.
CaseComplete == pc = "for" /\ Len(current_test_case) = Len(sorted_params)

\* The test cases appended so far, and the one about to be appended.
AppendedCases ==
    Range(test_cases) \cup (IF CaseComplete THEN {current_test_case} ELSE {})

\* C1 Coverage completeness: with at least two parameters and no empty
\* domain, a returned suite has, for every two distinct parameters and every
\* value of each, a test case assigning both values.
C1_CoverageCompleteness ==
    (pc = "returned" /\ ~overflow /\ Len(parameters) >= 2 /\ NoEmptyDomain)
        => AllCovered(test_cases)

C1_Witness ==
    /\ pc = "returned" /\ ~overflow
    /\ Len(parameters) >= 2 /\ NoEmptyDomain
    /\ Len(test_cases) >= 2

\* C2 Termination: for every input without an empty domain the generation
\* loop eventually finds the uncovered set empty and returns the suite.
C2_Termination ==
    NoEmptyDomain => <>(pc = "returned" /\ uncovered_pairs = {})

\* C3 Stall detection: a completed test case that induces no uncovered pair
\* while pairs remain uncovered ends generation in a CoverageStall failure
\* and is not appended to the suite.
C3_StallDetection ==
    [][(CaseComplete /\ uncovered_pairs # {}
            /\ PairsInCase(current_test_case) \cap uncovered_pairs = {})
        => (pc' = "raised" /\ error' = "CoverageStall" /\ test_cases' = test_cases)]_vars

\* C4 Empty-domain rejection: with an empty domain declared, generation fails
\* with InvalidInput before the universe or any test case is built, and no
\* suite is ever returned.
C4_EmptyDomainRejected ==
    ~NoEmptyDomain =>
        /\ pc \in {"start", "raised"}
        /\ pc = "raised" => error = "InvalidInput"
        /\ uncovered_pairs = {} /\ sorted_params = <<>> /\ test_cases = <<>>

\* C5 Monotonic strict shrink: every iteration that appends a test case
\* leaves the uncovered set strictly smaller, and the appended test case
\* duplicates no earlier one.
C5_StrictShrink ==
    [][CaseComplete =>
        /\ Cardinality(uncovered_pairs') < Cardinality(uncovered_pairs)
        /\ \A k \in 1..Len(test_cases) : test_cases[k] # current_test_case]_vars

\* C6 Degenerate inputs: zero parameters return the empty suite without
\* error; one parameter with k values returns k test cases, the i-th mapping
\* the parameter to its i-th value; neither enters the pair-generation loop.
C6_DegenerateInputs ==
    Len(parameters) < 2 =>
        /\ pc \in {"start", "returned"}
        /\ error = "none"
        /\ uncovered_pairs = {} /\ sorted_params = <<>> /\ current_test_case = <<>>
        /\ (pc = "returned" /\ Len(parameters) = 0) => test_cases = <<>>
        /\ (pc = "returned" /\ Len(parameters) = 1) =>
              /\ Len(test_cases) = Len(parameters[1][2])
              /\ \A i \in 1..Len(test_cases) :
                    test_cases[i] = << <<parameters[1][1], parameters[1][2][i]>> >>

C6_Witness ==
    /\ pc = "returned" /\ Len(parameters) = 1
    /\ Len(test_cases) = 2 /\ test_cases[1] # test_cases[2]

\* C7 Scenario a/b/c: for a:[0,1], b:[0,1], c:[0,1] the universe has 12
\* pairs and the suite returned covers all of them with at most 4 test cases.
C7_ScenarioABC ==
    parameters = ABCParams =>
        /\ (pc = "while" /\ test_cases = <<>>) => Cardinality(uncovered_pairs) = 12
        /\ Len(test_cases) <= 4
        /\ pc = "returned" => AllCovered(test_cases)

\* C8 Scenario x/y: for x:[1,2,3], y:[A,B] the universe has 6 pairs and the
\* suite returned covers all of them with at most 3 test cases.
C8_ScenarioXY ==
    parameters = XYParams =>
        /\ (pc = "while" /\ test_cases = <<>>) => Cardinality(uncovered_pairs) = 6
        /\ Len(test_cases) <= 3
        /\ pc = "returned" => AllCovered(test_cases)

\* C9 Totality: every test case appended to the suite has exactly the
\* declared parameter names as its keys.
C9_Totality ==
    \A case \in AppendedCases :
        /\ KeySet(case) = KeySet(parameters)
        /\ Len(case) = Len(parameters)

C9_Witness ==
    /\ Len(parameters) = 3
    /\ Len(test_cases) >= 2
    /\ CaseComplete

\* C10 Domain fidelity: in every test case appended to the suite each
\* parameter's value is an element of that parameter's declared domain.
C10_DomainFidelity ==
    \A case \in AppendedCases : \A i \in 1..Len(case) :
        /\ case[i][1] \in KeySet(parameters)
        /\ case[i][2] \in Range(Get(parameters, case[i][1]))

C10_Witness ==
    /\ Len(test_cases) >= 2
    /\ \E i, j \in 1..Len(parameters) :
          /\ Cardinality(Range(parameters[i][2])) = 2
          /\ Range(parameters[j][2]) # Range(parameters[i][2])
          /\ \E k \in 1..Len(test_cases) :
                Assigns(test_cases[k], parameters[i][1], parameters[i][2][2])

\* The universe of section 3 of the specification, written from the input
\* alone: every two entries of two distinct parameters, the entry of the
\* lower-ranked name first.
Universe ==
    UNION {{<<<<t[1][1], v1>>, <<t[2][1], v2>>>> :
                v1 \in Range(t[1][2]), v2 \in Range(t[2][2])} :
           t \in {u \in Range(parameters) \X Range(parameters) : u[1][1] < u[2][1]}}

\* C11 Iteration bound: the number of test cases appended to the suite is at
\* every point at most the number of pairs of the universe.
C11_IterationBound ==
    Len(parameters) >= 2 => Len(test_cases) <= Cardinality(Universe)

\* No domain lists a value twice.
DuplicateFree ==
    \A i \in 1..Len(parameters) :
        Cardinality(Range(parameters[i][2])) = Len(parameters[i][2])

RECURSIVE SumOfProducts(_)
\* The sum of |domain(P1)| * |domain(P2)| over a set of entry pairs.
SumOfProducts(S) ==
    IF S = {} THEN 0
    ELSE LET t == CHOOSE u \in S : TRUE
         IN Len(t[1][2]) * Len(t[2][2]) + SumOfProducts(S \ {t})

\* The uncovered set is the one line 52 first tests: nothing is appended yet.
UniverseBuilt == pc = "while" /\ test_cases = <<>> /\ ~overflow

\* C12 Universe construction: with at least two parameters and duplicate-free
\* domains the initial uncovered set is exactly the set of canonical pairs of
\* two distinct parameters' values; it has no pair within one parameter, no
\* pair in both orders, and as many pairs as the sum over the unordered
\* parameter pairs of the product of their domain sizes.
C12_UniverseConstruction ==
    (UniverseBuilt /\ Len(parameters) >= 2 /\ DuplicateFree) =>
        /\ uncovered_pairs = Universe
        /\ \A pr \in uncovered_pairs :
              /\ pr[1][1] # pr[2][1]
              /\ <<pr[2], pr[1]>> \notin uncovered_pairs
        /\ Cardinality(uncovered_pairs) =
              SumOfProducts({u \in Range(parameters) \X Range(parameters) :
                                u[1][1] < u[2][1]})

C12_Witness ==
    /\ UniverseBuilt /\ DuplicateFree
    /\ Len(parameters) = 3
    /\ Keys(parameters) # <<1, 2, 3>>
    /\ Cardinality(uncovered_pairs) = 8

\* The pair of two entries is still uncovered, whichever way it is written.
StillUncovered(e1, e2) ==
    <<e1, e2>> \in uncovered_pairs \/ <<e2, e1>> \in uncovered_pairs

\* The score of value v for parameter p against the partial test case: the
\* number of assigned parameters whose pair with (p, v) is still uncovered.
Score(p, v) ==
    Cardinality({i \in 1..Len(current_test_case) :
        StillUncovered(<<p, v>>, current_test_case[i])})

\* C13 Greedy selection rule: the value assigned to a parameter is the first
\* value in its domain order whose score is maximal; a later value replaces
\* an earlier one only if its score is strictly higher.
C13_GreedySelection ==
    [][(pc = "for" /\ Len(current_test_case') = Len(current_test_case) + 1) =>
        LET p == current_test_case'[Len(current_test_case')][1]
            v == current_test_case'[Len(current_test_case')][2]
            domain == Get(parameters, p)
        IN /\ p = sorted_params[Len(current_test_case) + 1]
           /\ \E k \in 1..Len(domain) :
                /\ domain[k] = v
                /\ \A j \in 1..Len(domain) : Score(p, domain[j]) <= Score(p, v)
                /\ \A j \in 1..(k - 1) : Score(p, domain[j]) < Score(p, v)]_vars

\* A later value of a domain has replaced the first one, on a strictly higher
\* score.
C13_Witness ==
    /\ pc = "for"
    /\ \E i \in 2..Len(current_test_case) :
          LET domain == Get(parameters, current_test_case[i][1])
          IN /\ Cardinality(Range(domain)) = 2
             /\ current_test_case[i][2] # domain[1]

\* The test cases appended so far, the one about to be appended and the one
\* under construction once its first parameter is assigned.
StartedCases ==
    AppendedCases \cup
        (IF pc = "for" /\ current_test_case # <<>> THEN {current_test_case} ELSE {})

C15_NeverRegrows ==
    /\ [](uncovered_pairs \subseteq Universe)
    /\ [][pc # "start" => uncovered_pairs' \subseteq uncovered_pairs]_vars

\* A test case that induces pairs already removed earlier has been appended,
\* and pairs remain uncovered.
C15_Witness ==
    /\ pc = "while"
    /\ Len(test_cases) >= 2
    /\ uncovered_pairs # {}
    /\ \E k \in 2..Len(test_cases) :
          /\ test_cases[k] # test_cases[1]
          /\ PairsInCase(test_cases[k]) \cap PairsInCase(test_cases[1]) # {}

\* The pairs a test case induces, written from its assignments alone: every
\* two of its entries, the entry of the lower-ranked name first.
InducedPairs(case) ==
    {t \in Range(case) \X Range(case) : t[1][1] < t[2][1]}

\* The pairs induced by the test cases of the suite.
InducedBySuite == UNION {InducedPairs(test_cases[k]) : k \in 1..Len(test_cases)}

\* C16 Coverage bookkeeping: at the start of every loop iteration and at
\* return the uncovered set is the universe minus the pairs induced by the
\* test cases of the suite; removing the pairs of a test case removes exactly
\* those still present and leaves the rest of the set as it was.
C16_CoverageBookkeeping ==
    /\ (Len(parameters) >= 2 /\ pc \in {"while", "returned"} /\ ~overflow) =>
          uncovered_pairs = Universe \ InducedBySuite
    /\ (pc = "while" /\ test_cases # <<>>) =>
          uncovered_pairs \cap InducedPairs(current_test_case) = {}

\* The suite holds two different test cases that induce a common pair, so the
\* later one removed a pair that was already absent.
C16_Witness ==
    /\ pc = "while" /\ ~overflow
    /\ Len(parameters) = 3
    /\ uncovered_pairs # {}
    /\ \E k \in 2..Len(test_cases) :
          /\ test_cases[k] # test_cases[1]
          /\ InducedPairs(test_cases[k]) \cap InducedPairs(test_cases[1]) # {}

\* The position of a declared name in the input mapping.
InsertionIndex(p) == CHOOSE i \in 1..Len(parameters) : parameters[i][1] = p

\* s lists every declared name once, longer domains first and names of equal
\* domain length in insertion order.
DescendingStable(s) ==
    /\ Len(s) = Len(parameters)
    /\ Range(s) = KeySet(parameters)
    /\ \A i, j \in 1..Len(s) :
          i < j =>
              \/ Len(Get(parameters, s[i])) > Len(Get(parameters, s[j]))
              \/ /\ Len(Get(parameters, s[i])) = Len(Get(parameters, s[j]))
                 /\ InsertionIndex(s[i]) < InsertionIndex(s[j])

\* C17 Visitation order: the order is computed once before the loop, the
\* parameters by descending domain size with equal sizes in insertion order,
\* and every iteration visits the parameters in that same order.
C17_VisitationOrder ==
    /\ [](pc \in {"while", "for"} => DescendingStable(sorted_params))
    /\ [](\A case \in StartedCases :
             Len(parameters) >= 2 => Keys(case) = SubSeq(sorted_params, 1, Len(case)))
    /\ [][pc # "start" => sorted_params' = sorted_params]_vars

\* Two iterations have run on three parameters whose visitation order is
\* neither the insertion order nor decided by domain size alone.
C17_Witness ==
    /\ pc = "while"
    /\ Len(parameters) = 3
    /\ Len(test_cases) >= 2
    /\ test_cases[1] # test_cases[2]
    /\ sorted_params # Keys(parameters)
    /\ \E i, j \in 1..3 :
          i # j /\ Len(parameters[i][2]) = Len(parameters[j][2])
    /\ \E i, j \in 1..3 : Len(parameters[i][2]) # Len(parameters[j][2])

\* C18 Append-only suite: in the loop the suite changes only by appending the
\* completed test case, one per iteration; the test cases already in it and
\* their order are left as they were by every later step.
C18_AppendOnly ==
    [][pc # "start" =>
        /\ Len(test_cases') >= Len(test_cases)
        /\ SubSeq(test_cases', 1, Len(test_cases)) = test_cases
        /\ ~CaseComplete => test_cases' = test_cases
        /\ (CaseComplete /\ Len(test_cases) < MaxSuite) =>
              test_cases' = Append(test_cases, current_test_case)]_vars

\* A third test case has been appended behind two different ones.
C18_Witness ==
    /\ pc = "while"
    /\ Len(test_cases) >= 3
    /\ test_cases[1] # test_cases[2]
    /\ test_cases[3] # test_cases[2]

====
